---- MODULE Spec2Model ----
(***************************************************************************)
(* Resource lifecycle of the learn_SDL example programs: the variadic      *)
(* cleanup() helper, the LTexture wrapper, renderTexture(), and the        *)
(* start-up / event loop / teardown of the four example mains.             *)
(*                                                                         *)
(* The SDL, SDL_image and SDL_ttf libraries are external.  Every call      *)
(* into them that acquires or releases a resource is appended to `calls`,  *)
(* the trace of library calls, in the order the program makes them.        *)
(***************************************************************************)
EXTENDS Integers, Sequences, FiniteSets, TLC

VARIABLES
    prog,       \* which translation unit is running
    pc,         \* position of the running program
    calls,      \* trace of acquiring / releasing library calls
    args,       \* argument list handed to cleanup(...)
    texTable,   \* the library's textures: texture handle i is texTable[i]
    lt,         \* the LTexture objects: name -> (mTexture, mWidth, mHeight)
    hist,       \* the last texture operation, its inputs and its result
    draws,      \* the draw calls the last render operation handed over
    gWindow,    \* SDL_Window* gWindow (win in the mains that name it so)
    gRenderer,  \* SDL_Renderer* gRenderer (ren)
    gTexture,   \* SDL_Texture* gTexture (image)
    gStretchedSurface,  \* SDL_Surface* gStretchedSurface
    gScreenSurface,     \* SDL_Surface* gScreenSurface, the window's surface
    quit,       \* bool quit of main
    e,          \* SDL_Event e of main: the event polled last
    rgb,        \* Uint8 r, g, b of main
    nKeys,      \* colour key-downs delivered so far
    rets        \* what init(), loadMedia() and main() returned

mainVars == <<gWindow, gRenderer, gTexture, gStretchedSurface, gScreenSurface,
              quit, e, rgb, nKeys, rets>>

vars == <<prog, pc, calls, args, texTable, lt, hist, draws, mainVars>>

\* ------------------------------------------------------------------ bounds
MaxArgs == 3        \* longest argument list given to cleanup
MaxHandle == 2      \* handles are 1..MaxHandle, NULL is the absent handle
MaxTextures == 2    \* textures the library creates in one run
MaxKeys == 2        \* colour key-downs delivered in one run

NULL == 0

Kinds == {"Window", "Renderer", "Texture", "Surface"}
Handles == 1..MaxHandle

\* A typed pointer argument: the static type T of a T* and its value.
Ptr(k, v) == [kind |-> k, h |-> v]
Ptrs == [kind : Kinds, h : {NULL} \cup Handles]

Call(o, v) == [op |-> o, h |-> v]

Count(s, x) == Cardinality({i \in DOMAIN s : s[i] = x})

\* SDL_Event e before SDL_PollEvent has written an event to it.
NoEvent == [type |-> "none", sym |-> "none"]

\* The globals and the locals of main before main runs.
NoRets == [init |-> "none", loadMedia |-> "none", main |-> "none"]

InitMainVars ==
    /\ gWindow = NULL
    /\ gRenderer = NULL
    /\ gTexture = NULL
    /\ gStretchedSurface = NULL
    /\ gScreenSurface = NULL
    /\ quit = FALSE
    /\ rgb = [r |-> 255, g |-> 255, b |-> 255]
    /\ e = NoEvent
    /\ nKeys = 0
    /\ rets = NoRets

\* ------------------------------------------------------------ cleanup.h
\* template<> cleanup<SDL_Window>(SDL_Window* win)
cleanup_SDL_Window(win) ==
    IF win = NULL THEN <<>> ELSE <<Call("SDL_DestroyWindow", win)>>

\* template<> cleanup<SDL_Renderer>(SDL_Renderer* ren)
cleanup_SDL_Renderer(ren) ==
    IF ren = NULL THEN <<>> ELSE <<Call("SDL_DestroyRenderer", ren)>>

\* Mutant: the texture specialization without its null check.
cleanup_SDL_Texture_NoNullCheck(tex) == <<Call("SDL_DestroyTexture", tex)>>

\* template<> cleanup<SDL_Texture>(SDL_Texture* tex)
cleanup_SDL_Texture(tex) ==
    IF tex = NULL THEN <<>> ELSE <<Call("SDL_DestroyTexture", tex)>>

\* template<> cleanup<SDL_Surface>(SDL_Surface* surf)
cleanup_SDL_Surface(surf) ==
    IF surf = NULL THEN <<>> ELSE <<Call("SDL_FreeSurface", surf)>>

\* cleanup(t) with one argument: overload resolution picks the
\* specialization of the static type of t.
cleanup1(t) ==
    CASE t.kind = "Window"   -> cleanup_SDL_Window(t.h)
      [] t.kind = "Renderer" -> cleanup_SDL_Renderer(t.h)
      [] t.kind = "Texture"  -> cleanup_SDL_Texture(t.h)
      [] t.kind = "Surface"  -> cleanup_SDL_Surface(t.h)

\* Mutants of the recursion: one that recurses before it cleans up the
\* first item, one that cleans the first item up twice.
RECURSIVE cleanup_RestFirst(_)
cleanup_RestFirst(a) ==
    IF Len(a) = 1
    THEN cleanup1(a[1])
    ELSE cleanup_RestFirst(Tail(a)) \o cleanup1(Head(a))

RECURSIVE cleanup_FirstTwice(_)
cleanup_FirstTwice(a) ==
    IF Len(a) = 1
    THEN cleanup1(a[1])
    ELSE cleanup1(Head(a)) \o cleanup1(Head(a)) \o cleanup_FirstTwice(Tail(a))

\* template<typename T, typename... Args> cleanup(T* t, Args&&... args):
\* clean up the first item, then recurse on the remaining arguments.  The
\* result is the sequence of library calls the whole call makes.
RECURSIVE cleanup(_)
cleanup(a) ==
    IF Len(a) = 1
    THEN cleanup1(a[1])
    ELSE cleanup1(Head(a)) \o cleanup(Tail(a))

\* ------------------------------------------------------------ the library
\* Image files and the pixel size they decode to.  A path outside the
\* domain ("missing.png") never decodes.
AssetDim ==
    [p \in {"4x4.png", "res/full.png", "lession9_viewport.png"} |->
        CASE p = "4x4.png"      -> [w |-> 4, h |-> 4]
          [] p = "res/full.png" -> [w |-> 640, h |-> 480]
          [] p = "lession9_viewport.png" -> [w |-> 640, h |-> 480]]

Paths == {"4x4.png", "res/full.png", "missing.png"}

White == [r |-> 255, g |-> 255, b |-> 255]

\* A texture as the library keeps it: its size and its colour modulation.
NewTexture(dim) == [w |-> dim.w, h |-> dim.h, mod |-> White]

\* What creating a texture from the image at `path` through renderer `ren`
\* can return: NULL (file missing, format unsupported, renderer rejects
\* it), or the next fresh texture handle when the file decodes and a
\* renderer is there.
CreateTextureResults(ren, path) ==
    {NULL} \cup
    (IF ren # NULL /\ path \in DOMAIN AssetDim /\ Len(texTable) < MaxTextures
     THEN {Len(texTable) + 1} ELSE {})

NoClip == [x |-> -1, y |-> -1, w |-> -1, h |-> -1]
NoInput == [tex |-> NULL, x |-> 0, y |-> 0, clip |-> NoClip]

\* SDL_RenderCopy(ren, tex, src, dst): the draw as the renderer receives it.
SDL_RenderCopy(ren, tex, src, dst) ==
    [ren |-> ren, tex |-> tex, src |-> src, dst |-> dst]

\* What an int left uninitialized on the stack may hold.
UninitInts == {0, 57}

\* SDL_QueryTexture(tex, NULL, NULL, &w, &h): writes the size of a texture;
\* given no texture it fails and writes nothing, so w and h keep whatever
\* the caller's uninitialized SDL_Rect held.
SDL_QueryTexture(tex) ==
    IF tex \in DOMAIN texTable
    THEN {[w |-> texTable[tex].w, h |-> texTable[tex].h]}
    ELSE [w : UninitInts, h : UninitInts]

\* Mutant: the destination always takes the texture's size.
renderTexture_IgnoresClip(tex, ren, x, y, clip) ==
    {<<SDL_RenderCopy(ren, tex, clip, [x |-> x, y |-> y, w |-> q.w, h |-> q.h])>> :
        q \in SDL_QueryTexture(tex)}

\* renderTexture(tex, ren, x, y, clip): the draws the call can make (one
\* SDL_RenderCopy; more than one outcome only where w and h are read
\* uninitialized).
renderTexture(tex, ren, x, y, clip) ==
    IF clip # NoClip
    THEN {<<SDL_RenderCopy(ren, tex, clip,
                           [x |-> x, y |-> y, w |-> clip.w, h |-> clip.h])>>}
    ELSE {<<SDL_RenderCopy(ren, tex, clip,
                           [x |-> x, y |-> y, w |-> q.w, h |-> q.h])>> :
             q \in SDL_QueryTexture(tex)}

\* ------------------------------------------------------------- LTexture
Empty == [mTexture |-> NULL, mWidth |-> 0, mHeight |-> 0]

\* hist: the operation just made (op), its inputs (in), its result (ret),
\* whether the object held a handle when it was called (wasLoaded), the
\* same two for the operation before it (prevOp, prevWasLoaded), and the
\* image of the most recent successful load (asset).
NoHist ==
    [op |-> "new", in |-> NoInput, ret |-> TRUE, wasLoaded |-> FALSE,
     prevOp |-> "new", prevWasLoaded |-> FALSE, asset |-> "none"]

Did(o, input, result, obj) ==
    [hist EXCEPT !.op = o, !.in = input, !.ret = result,
                 !.wasLoaded = obj.mTexture # NULL,
                 !.prevOp = hist.op, !.prevWasLoaded = hist.wasLoaded]

\* Mutants of the wrapper.
LTexture_free_KeepsHandle(o) ==
    IF o.mTexture # NULL
    THEN [obj |-> [o EXCEPT !.mWidth = 0, !.mHeight = 0],
          calls |-> <<Call("SDL_DestroyTexture", o.mTexture)>>]
    ELSE [obj |-> o, calls |-> <<>>]

\* LTexture::free(): release the handle if one is held, reset to Empty.
LTexture_free(o) ==
    IF o.mTexture # NULL
    THEN [obj |-> Empty, calls |-> <<Call("SDL_DestroyTexture", o.mTexture)>>]
    ELSE [obj |-> o, calls |-> <<>>]

\* Mutants of loadFromFile: one that does not drop what is held, one that
\* drops it only when the new image decodes, one that swaps the size.
LTexture_loadFromFile_NoFree(o, path, created) ==
    IF created = NULL
    THEN [obj |-> Empty, calls |-> <<>>, ret |-> FALSE]
    ELSE [obj |-> [mTexture |-> created,
                   mWidth |-> AssetDim[path].w,
                   mHeight |-> AssetDim[path].h],
          calls |-> <<Call("SDL_CreateTextureFromSurface", created)>>,
          ret |-> TRUE]

LTexture_loadFromFile_FailKeeps(o, path, created) ==
    IF created = NULL
    THEN [obj |-> o, calls |-> <<>>, ret |-> FALSE]
    ELSE [obj |-> [mTexture |-> created,
                   mWidth |-> AssetDim[path].w,
                   mHeight |-> AssetDim[path].h],
          calls |-> LTexture_free(o).calls \o
                    <<Call("SDL_CreateTextureFromSurface", created)>>,
          ret |-> TRUE]

LTexture_loadFromFile_Transposed(o, path, created) ==
    IF created = NULL
    THEN [obj |-> Empty, calls |-> LTexture_free(o).calls, ret |-> FALSE]
    ELSE [obj |-> [mTexture |-> created,
                   mWidth |-> AssetDim[path].h,
                   mHeight |-> AssetDim[path].w],
          calls |-> LTexture_free(o).calls \o
                    <<Call("SDL_CreateTextureFromSurface", created)>>,
          ret |-> TRUE]

\* LTexture::loadFromFile(ren, path), `created` being what the library's
\* texture creation returned: drop what is held, then keep the new handle
\* and the decoded size, or stay Empty and report failure.
LTexture_loadFromFile(o, path, created) ==
    LET freed == LTexture_free(o)
    IN  IF created = NULL
        THEN [obj |-> freed.obj, calls |-> freed.calls, ret |-> FALSE]
        ELSE [obj |-> [mTexture |-> created,
                       mWidth |-> AssetDim[path].w,
                       mHeight |-> AssetDim[path].h],
              calls |-> freed.calls \o
                        <<Call("SDL_CreateTextureFromSurface", created)>>,
              ret |-> TRUE]

\* LTexture::render(ren, x, y, clip): one SDL_RenderCopy whose destination
\* is (x, y) sized by the clip, or by the stored size when there is none.
LTexture_render(o, ren, x, y, clip) ==
    LET renderQuad ==
            IF clip # NoClip
            THEN [x |-> x, y |-> y, w |-> clip.w, h |-> clip.h]
            ELSE [x |-> x, y |-> y, w |-> o.mWidth, h |-> o.mHeight]
    IN  <<SDL_RenderCopy(ren, o.mTexture, clip, renderQuad)>>

\* LTexture::setColor(r, g, b): SDL_SetTextureColorMod on the held handle;
\* nothing to modulate while Empty.
LTexture_setColor(o, tint) ==
    IF o.mTexture \in DOMAIN texTable
    THEN [texTable EXCEPT ![o.mTexture].mod = tint]
    ELSE texTable

getWidth(o) == o.mWidth
getHeight(o) == o.mHeight

\* ------------------------------------------------- one LTexture on its own
Coords == {10, 20}
Clips == {NoClip, [x |-> 100, y |-> 0, w |-> 100, h |-> 100]}
Tints == {White, [r |-> 31, g |-> 255, b |-> 223]}

InitLTexture ==
    /\ prog = "LTexture"
    /\ pc = "use"
    /\ calls = <<>>
    /\ args = <<>>
    /\ texTable = <<>>
    /\ lt = [n \in {"t"} |-> Empty]
    /\ hist = NoHist
    /\ draws = <<>>
    /\ InitMainVars

\* t.loadFromFile(ren, path), the renderer being present.
LoadFromFile ==
    /\ prog = "LTexture"
    /\ \E path \in Paths : \E created \in CreateTextureResults(1, path) :
         LET r == LTexture_loadFromFile(lt["t"], path, created)
         IN  /\ lt' = [lt EXCEPT !["t"] = r.obj]
             /\ calls' = calls \o r.calls
             /\ texTable' = IF created = NULL THEN texTable
                            ELSE Append(texTable, NewTexture(AssetDim[path]))
             /\ hist' = [Did("load", NoInput, r.ret, lt["t"]) EXCEPT
                            !.asset = IF r.ret THEN path ELSE hist.asset]
    /\ UNCHANGED <<prog, pc, args, draws, mainVars>>

\* t.free()
Free ==
    /\ prog = "LTexture"
    /\ LET r == LTexture_free(lt["t"])
       IN  /\ lt' = [lt EXCEPT !["t"] = r.obj]
           /\ calls' = calls \o r.calls
    /\ hist' = Did("free", NoInput, TRUE, lt["t"])
    /\ UNCHANGED <<prog, pc, args, texTable, draws, mainVars>>

\* t.render(ren, x, y) and t.render(ren, x, y, &clip)
Render ==
    /\ prog = "LTexture"
    /\ \E x \in Coords, y \in Coords, clip \in Clips :
         /\ draws' = LTexture_render(lt["t"], 1, x, y, clip)
         /\ hist' = Did("render",
                        [tex |-> lt["t"].mTexture, x |-> x, y |-> y, clip |-> clip],
                        TRUE, lt["t"])
    /\ UNCHANGED <<prog, pc, calls, args, texTable, lt, mainVars>>

\* t.setColor(r, g, b)
SetColor ==
    /\ prog = "LTexture"
    /\ \E tint \in Tints : texTable' = LTexture_setColor(lt["t"], tint)
    /\ hist' = Did("setColor", NoInput, TRUE, lt["t"])
    /\ UNCHANGED <<prog, pc, calls, args, lt, draws, mainVars>>

NextLTexture == LoadFromFile \/ Free \/ Render \/ SetColor

SpecLTexture == InitLTexture /\ [][NextLTexture]_vars

\* ------------------------------------- renderTexture beside the LTexture
\* renderTexture(tex, ren, x, y[, &clip]) on the texture now held, or on
\* no texture.
CallRenderTexture ==
    /\ prog = "LTexture"
    /\ \E tex \in {NULL, lt["t"].mTexture}, x \in Coords, y \in Coords,
          clip \in Clips :
         /\ draws' \in renderTexture(tex, 1, x, y, clip)
         /\ hist' = Did("renderTexture",
                        [tex |-> tex, x |-> x, y |-> y, clip |-> clip],
                        TRUE, lt["t"])
    /\ UNCHANGED <<prog, pc, calls, args, texTable, lt, mainVars>>

NextRender == LoadFromFile \/ Free \/ Render \/ CallRenderTexture

SpecRender == InitLTexture /\ [][NextRender]_vars

\* C9: a render at (x, y) hands the renderer one draw of the texture whose
\* destination has origin (x, y); with a source region the draw's source is
\* the region and the destination takes the region's width and height,
\* without one the source is the full texture and the destination takes the
\* texture's own width and height.
C9_RenderRect ==
    hist.op \in {"render", "renderTexture"} =>
        /\ Len(draws) = 1
        /\ draws[1].ren # NULL
        /\ draws[1].tex = hist.in.tex
        /\ draws[1].src = hist.in.clip
        /\ draws[1].dst.x = hist.in.x /\ draws[1].dst.y = hist.in.y
        /\ IF hist.in.clip # NoClip
           THEN /\ draws[1].dst.w = hist.in.clip.w
                /\ draws[1].dst.h = hist.in.clip.h
           ELSE hist.in.tex \in DOMAIN texTable =>
                /\ draws[1].dst.w = texTable[hist.in.tex].w
                /\ draws[1].dst.h = texTable[hist.in.tex].h

\* renderTexture with a clip on the 640x480 texture: a 100x100 destination
\* at (10, 20).
C9_Witness ==
    /\ hist.op = "renderTexture"
    /\ hist.in.tex \in DOMAIN texTable
    /\ texTable[hist.in.tex].w = 640
    /\ hist.in.clip # NoClip
    /\ draws = <<[ren |-> 1, tex |-> hist.in.tex, src |-> hist.in.clip,
                  dst |-> [x |-> 10, y |-> 20, w |-> 100, h |-> 100]]>>

\* ---------------------------------------------------- claims on LTexture
TextureOf(n) == lt[n].mTexture
Destroyed(h) == Count(calls, Call("SDL_DestroyTexture", h))
Position(c) == CHOOSE i \in DOMAIN calls : calls[i] = c

\* C5: free() leaves width and height 0, releases no texture handle a
\* second time, and a free() straight after a free() changes neither the
\* object nor the trace of library calls.
C5_FreeIdempotent ==
    [][hist'.op = "free" =>
          /\ getWidth(lt'["t"]) = 0 /\ getHeight(lt'["t"]) = 0
          /\ \A h \in DOMAIN texTable' :
                Count(calls', Call("SDL_DestroyTexture", h)) <= 1
          /\ hist.op = "free" => lt' = lt /\ calls' = calls]_vars

\* free() twice in a row on a loaded texture.
C5_Witness ==
    /\ hist.op = "free" /\ ~hist.wasLoaded
    /\ hist.prevOp = "free" /\ hist.prevWasLoaded
    /\ Destroyed(1) = 1

\* C6: after any load the object holds at most one live handle: every
\* texture created before is released exactly once, the one held is not
\* released, and a handle is released before the next one is created.
C6_ReloadReleases ==
    /\ \A h \in DOMAIN texTable :
          Destroyed(h) = IF h = TextureOf("t") THEN 0 ELSE 1
    /\ \A h \in DOMAIN texTable : h + 1 \in DOMAIN texTable =>
          Position(Call("SDL_DestroyTexture", h))
              < Position(Call("SDL_CreateTextureFromSurface", h + 1))

\* A second successful load on a loaded texture.
C6_Witness ==
    /\ hist.op = "load" /\ hist.ret /\ hist.wasLoaded
    /\ TextureOf("t") = 2

\* C7: a failed load returns false and leaves the object Empty (no handle,
\* width 0, height 0) whether it was Empty or Loaded before, and a free()
\* after it does nothing.
C7_LoadFailureEmpty ==
    hist.op = "load" /\ ~hist.ret =>
        /\ TextureOf("t") = NULL
        /\ getWidth(lt["t"]) = 0 /\ getHeight(lt["t"]) = 0
        /\ LTexture_free(lt["t"]) = [obj |-> lt["t"], calls |-> <<>>]

\* A load that fails on a loaded texture.
C7_Witness ==
    /\ hist.op = "load" /\ ~hist.ret /\ hist.wasLoaded
    /\ TextureOf("t") = NULL

\* C8: in every state, width and height are both 0 when no handle is held,
\* and when one is held they are the pixel size of the image of the most
\* recent successful load, which is the size the library reports.
C8_Dimensions ==
    IF TextureOf("t") = NULL
    THEN getWidth(lt["t"]) = 0 /\ getHeight(lt["t"]) = 0
    ELSE /\ hist.asset \in DOMAIN AssetDim
         /\ getWidth(lt["t"]) = AssetDim[hist.asset].w
         /\ getHeight(lt["t"]) = AssetDim[hist.asset].h
         /\ getWidth(lt["t"]) = texTable[TextureOf("t")].w
         /\ getHeight(lt["t"]) = texTable[TextureOf("t")].h

\* Loaded with the 640x480 image after an earlier load of another image.
C8_Witness ==
    /\ TextureOf("t") = 2
    /\ hist.asset = "res/full.png"
    /\ hist.op \in {"render", "setColor"}
    /\ getWidth(lt["t"]) = 640 /\ getHeight(lt["t"]) = 480

\* ------------------------------------------------------ the example mains
SCREEN_WIDTH == 640
SCREEN_HEIGHT == 480

\* A library call on a subsystem or on the only window, renderer, font or
\* surface of its kind.
Sub(o) == Call(o, NULL)

\* The events SDL_PollEvent can deliver: type and, for keys, the key.
Ev(t, k) == [type |-> t, sym |-> k]
ColourKeys == {"SDLK_q", "SDLK_w", "SDLK_e", "SDLK_a", "SDLK_s", "SDLK_d"}
Keys == ColourKeys \cup {"SDLK_1", "SDLK_ESCAPE", "SDLK_x"}
EventSet ==
    {Ev("SDL_QUIT", "none"), Ev("SDL_MOUSEBUTTONDOWN", "none"),
     Ev("SDL_MOUSEMOTION", "none")}
    \cup {Ev("SDL_KEYDOWN", k) : k \in Keys}
    \cup {Ev("SDL_KEYUP", k) : k \in {"SDLK_q", "SDLK_ESCAPE"}}

\* Mutant: the body assigning the outcome of its last test to quit instead
\* of only ever setting it.
handleEvent_Assigns(ev, q) ==
    LET q1 == IF ev.type = "SDL_QUIT" THEN TRUE ELSE q
        q2 == IF ev.type = "SDL_KEYDOWN" /\ ev.sym = "SDLK_ESCAPE" THEN TRUE ELSE q1
    IN  IF ev.type = "SDL_MOUSEBUTTONDOWN" THEN TRUE
        ELSE IF ev.type = "SDL_MOUSEMOTION" THEN FALSE ELSE q2

\* The body of while (SDL_PollEvent(&e)) in the mains without colour keys:
\* the value of quit after the event.
handleEvent(ev, q) ==
    LET q1 == IF ev.type = "SDL_QUIT" THEN TRUE ELSE q
        q2 == IF ev.type = "SDL_KEYDOWN" /\ ev.sym = "SDLK_ESCAPE" THEN TRUE ELSE q1
    IN  IF ev.type = "SDL_MOUSEBUTTONDOWN" THEN TRUE ELSE q2

\* Mutant: renderText returning as soon as the texture could not be created,
\* as its two earlier checks do.
renderText_EarlyReturn(fail, tex) ==
    IF fail = "TTF_OpenFont"
    THEN [calls |-> <<>>, texture |-> NULL]
    ELSE IF fail = "TTF_RenderText_Blended"
    THEN [calls |-> <<Call("TTF_OpenFont", 1), Call("TTF_CloseFont", 1)>>,
          texture |-> NULL]
    ELSE IF fail = "SDL_CreateTextureFromSurface" \/ tex = NULL
    THEN [calls |-> <<Call("TTF_OpenFont", 1),
                      Call("TTF_RenderText_Blended", 1)>>,
          texture |-> NULL]
    ELSE [calls |-> <<Call("TTF_OpenFont", 1),
                      Call("TTF_RenderText_Blended", 1),
                      Call("SDL_CreateTextureFromSurface", tex),
                      Call("SDL_FreeSurface", 1),
                      Call("TTF_CloseFont", 1)>>,
          texture |-> tex]

\* renderText(message, fontFile, color, fontSize, renderer), `fail` naming
\* the library call that fails, if any, and tex being the texture
\* SDL_CreateTextureFromSurface returns when it is reached (NULL when it
\* fails): the calls made and the texture returned.  The font and the
\* surface are the only ones of their kind.
renderText(fail, tex) ==
    IF fail = "TTF_OpenFont"
    THEN [calls |-> <<>>, texture |-> NULL]
    ELSE IF fail = "TTF_RenderText_Blended"
    THEN [calls |-> <<Call("TTF_OpenFont", 1), Call("TTF_CloseFont", 1)>>,
          texture |-> NULL]
    ELSE IF fail = "SDL_CreateTextureFromSurface" \/ tex = NULL
    THEN [calls |-> <<Call("TTF_OpenFont", 1),
                      Call("TTF_RenderText_Blended", 1),
                      Call("SDL_FreeSurface", 1),
                      Call("TTF_CloseFont", 1)>>,
          texture |-> NULL]
    ELSE [calls |-> <<Call("TTF_OpenFont", 1),
                      Call("TTF_RenderText_Blended", 1),
                      Call("SDL_CreateTextureFromSurface", tex),
                      Call("SDL_FreeSurface", 1),
                      Call("TTF_CloseFont", 1)>>,
          texture |-> tex]

\* The size the rasterized text comes out at.
TextDim == [w |-> 400, h |-> 64]

\* ------------------------------------------------- renderText on its own
MaxFonts == 4       \* fonts opened in one run

RenderTextFailures == {"TTF_OpenFont", "TTF_RenderText_Blended", "none"}

\* What SDL_CreateTextureFromSurface(renderer, surf) can return.
TextTextureResults(renderer) ==
    {NULL} \cup
    (IF renderer # NULL /\ Len(texTable) < MaxTextures
     THEN {Len(texTable) + 1} ELSE {})

InitRenderText ==
    /\ prog = "renderText"
    /\ pc = "use"
    /\ calls = <<>>
    /\ args = <<>>
    /\ texTable = <<>>
    /\ lt = [n \in {} |-> Empty]
    /\ hist = NoHist
    /\ draws = <<>>
    /\ InitMainVars

\* image = renderText(message, fontFile, color, fontSize, renderer)
CallRenderText ==
    /\ prog = "renderText"
    /\ Count(calls, Call("TTF_OpenFont", 1)) < MaxFonts
    /\ \E fail \in RenderTextFailures, renderer \in {NULL, 1} :
       \E created \in TextTextureResults(renderer) :
         LET r == renderText(fail, created)
         IN  /\ calls' = calls \o r.calls
             /\ gTexture' = r.texture
             /\ texTable' = IF r.texture = NULL THEN texTable
                            ELSE Append(texTable, NewTexture(TextDim))
             /\ hist' = [hist EXCEPT
                           !.op = "renderText",
                           !.in = [fail |-> fail, renderer |-> renderer,
                                   created |-> created],
                           !.ret = r.texture # NULL,
                           !.prevOp = hist.op]
    /\ UNCHANGED <<prog, pc, args, lt, draws, gWindow, gRenderer,
                   gStretchedSurface, gScreenSurface, quit, e, rgb, nKeys, rets>>

NextRenderText == CallRenderText

SpecRenderText == InitRenderText /\ [][NextRenderText]_vars

\* The calls of operation o among the first n calls of the trace.
CountOp(o, n) == Cardinality({i \in 1..n : calls[i].op = o})

\* Between calls of renderText nothing acquired under `acquire` is held, and
\* inside the trace it is released only after it was acquired, one at a
\* time.
ReleasedOnce(acquire, release) ==
    /\ CountOp(acquire, Len(calls)) = CountOp(release, Len(calls))
    /\ \A n \in 0..Len(calls) :
          /\ CountOp(release, n) <= CountOp(acquire, n)
          /\ CountOp(acquire, n) <= CountOp(release, n) + 1

\* C14: whenever renderText has returned, every font it opened and every
\* surface it rasterized has been released exactly once, whichever step
\* failed, and the texture it returned is null exactly when opening the
\* font, rasterizing the text or creating the texture failed.
C14_RenderTextNoLeak ==
    hist.op = "renderText" =>
        /\ ReleasedOnce("TTF_OpenFont", "TTF_CloseFont")
        /\ ReleasedOnce("TTF_RenderText_Blended", "SDL_FreeSurface")
        /\ gTexture = NULL <=>
              \/ hist.in.fail # "none"
              \/ hist.in.created = NULL
        /\ gTexture # NULL => gTexture = hist.in.created

\* The texture could not be created (no renderer): the surface and the font
\* were released and null came back.
C14_Witness ==
    /\ hist.op = "renderText"
    /\ hist.in.fail = "none" /\ hist.in.renderer = NULL
    /\ gTexture = NULL
    /\ calls = <<Call("TTF_OpenFont", 1), Call("TTF_RenderText_Blended", 1),
                 Call("SDL_FreeSurface", 1), Call("TTF_CloseFont", 1)>>

Programs == {"text", "lesson12", "lesson9", "stretch"}

\* ---- main of the text example (SDL_ttf)
TextFailures ==
    {"SDL_Init", "TTF_Init", "SDL_CreateWindow", "SDL_CreateRenderer",
     "TTF_OpenFont", "TTF_RenderText_Blended", "SDL_CreateTextureFromSurface",
     "none"}

\* Mutant: main without its check of image == nullptr, entering the loop
\* with whatever renderText returned.
TextStartup_NoImageCheck(fail) ==
    IF fail \in {"SDL_Init", "TTF_Init", "SDL_CreateWindow", "SDL_CreateRenderer"}
    THEN [calls |-> <<>>, win |-> NULL, ren |-> NULL, image |-> NULL, ret |-> "1"]
    ELSE LET text == renderText(fail, Len(texTable) + 1)
         IN  [calls |-> <<Sub("SDL_Init"), Sub("TTF_Init"),
                          Call("SDL_CreateWindow", 1),
                          Call("SDL_CreateRenderer", 1)>> \o text.calls,
              win |-> 1, ren |-> 1, image |-> text.texture, ret |-> "none"]

\* main from its first line to the loop or to an early return 1: the
\* library calls made, the locals win, ren and image, and whether main
\* returned.
TextStartup(fail) ==
    IF fail = "SDL_Init"
    THEN [calls |-> <<>>, win |-> NULL, ren |-> NULL, image |-> NULL, ret |-> "1"]
    ELSE IF fail = "TTF_Init"
    THEN [calls |-> <<Sub("SDL_Init"), Sub("SDL_Quit")>>,
          win |-> NULL, ren |-> NULL, image |-> NULL, ret |-> "1"]
    ELSE IF fail = "SDL_CreateWindow"
    THEN [calls |-> <<Sub("SDL_Init"), Sub("TTF_Init"), Sub("SDL_Quit")>>,
          win |-> NULL, ren |-> NULL, image |-> NULL, ret |-> "1"]
    ELSE IF fail = "SDL_CreateRenderer"
    THEN [calls |-> <<Sub("SDL_Init"), Sub("TTF_Init"),
                      Call("SDL_CreateWindow", 1),
                      Call("SDL_DestroyWindow", 1), Sub("SDL_Quit")>>,
          win |-> 1, ren |-> NULL, image |-> NULL, ret |-> "1"]
    ELSE LET text == renderText(fail, Len(texTable) + 1)
             made == <<Sub("SDL_Init"), Sub("TTF_Init"),
                       Call("SDL_CreateWindow", 1),
                       Call("SDL_CreateRenderer", 1)>> \o text.calls
         IN  IF text.texture = NULL
             THEN [calls |-> made
                             \o cleanup(<<Ptr("Renderer", 1), Ptr("Window", 1)>>)
                             \o <<Sub("TTF_Quit"), Sub("SDL_Quit")>>,
                   win |-> 1, ren |-> 1, image |-> NULL, ret |-> "1"]
             ELSE [calls |-> made, win |-> 1, ren |-> 1,
                   image |-> text.texture, ret |-> "none"]

TextStart ==
    /\ prog = "text" /\ pc = "start"
    /\ \E fail \in TextFailures :
         LET m == TextStartup(fail)
         IN  /\ calls' = calls \o m.calls
             /\ gWindow' = m.win /\ gRenderer' = m.ren /\ gTexture' = m.image
             /\ texTable' = IF m.image = NULL THEN texTable
                            ELSE Append(texTable, NewTexture(TextDim))
             /\ rets' = [rets EXCEPT !.main = m.ret]
             /\ pc' = IF m.ret = "none" THEN "poll" ELSE "returned"
    /\ UNCHANGED <<prog, args, lt, hist, draws, gStretchedSurface, gScreenSurface, quit, rgb, nKeys, e>>

\* One pass of while (SDL_PollEvent(&e)) { ... } with an event delivered.
PollSimple ==
    /\ prog \in {"text", "lesson9", "stretch"} /\ pc = "poll"
    /\ \E ev \in EventSet : e' = ev /\ quit' = handleEvent(ev, quit)
    /\ UNCHANGED <<prog, pc, calls, args, texTable, lt, hist, draws,
                   gWindow, gRenderer, gTexture, gStretchedSurface, gScreenSurface, rgb, nKeys, rets>>

\* SDL_PollEvent returns 0: the inner loop ends and the frame is drawn.
PollEmpty ==
    /\ prog \in Programs /\ pc = "poll"
    /\ pc' = "draw"
    /\ UNCHANGED <<prog, calls, args, texTable, lt, hist, draws, mainVars>>

\* SDL_RenderClear; renderTexture(image, ren, x, y); SDL_RenderPresent;
\* then the test of while (!quit).
TextDraw ==
    /\ prog = "text" /\ pc = "draw"
    /\ LET q == CHOOSE q \in SDL_QueryTexture(gTexture) : TRUE
           x == SCREEN_WIDTH \div 2 - q.w \div 2
           y == SCREEN_HEIGHT \div 2 - q.h \div 2
       IN  draws' \in renderTexture(gTexture, gRenderer, x, y, NoClip)
    /\ pc' = IF quit THEN "teardown" ELSE "poll"
    /\ UNCHANGED <<prog, calls, args, texTable, lt, hist, mainVars>>

\* cleanup(image, ren, win); TTF_Quit(); SDL_Quit(); return 0;
TextTeardown ==
    /\ prog = "text" /\ pc = "teardown"
    /\ calls' = calls
                 \o cleanup(<<Ptr("Texture", gTexture), Ptr("Renderer", gRenderer),
                              Ptr("Window", gWindow)>>)
                 \o <<Sub("TTF_Quit"), Sub("SDL_Quit")>>
    /\ rets' = [rets EXCEPT !.main = "0"]
    /\ pc' = "returned"
    /\ UNCHANGED <<prog, args, texTable, lt, hist, draws,
                   gWindow, gRenderer, gTexture, gStretchedSurface, gScreenSurface, quit, rgb, nKeys, e>>

\* ---- init(), shared by the colour-modulation and the viewport example
InitFailures == {"SDL_Init", "TTF_Init", "SDL_CreateWindow", "IMG_Init", "none"}

\* InitRender(window): the renderer, or NULL when SDL_CreateRenderer fails.
InitRender(renOk) ==
    IF renOk
    THEN [calls |-> <<Call("SDL_CreateRenderer", 1)>>, render |-> 1]
    ELSE [calls |-> <<>>, render |-> NULL]

\* init(), `fail` naming the checked library call that fails, if any, and
\* renOk telling whether SDL_CreateRenderer succeeds: the calls made, the
\* globals set and the value returned.
init(fail, renOk) ==
    IF fail = "SDL_Init"
    THEN [calls |-> <<>>, gWindow |-> NULL, gRenderer |-> NULL, ret |-> FALSE]
    ELSE IF fail = "TTF_Init"
    THEN [calls |-> <<Sub("SDL_Init")>>,
          gWindow |-> NULL, gRenderer |-> NULL, ret |-> FALSE]
    ELSE IF fail = "SDL_CreateWindow"
    THEN [calls |-> <<Sub("SDL_Init"), Sub("TTF_Init")>>,
          gWindow |-> NULL, gRenderer |-> NULL, ret |-> FALSE]
    ELSE LET r == InitRender(renOk)
             made == <<Sub("SDL_Init"), Sub("TTF_Init"),
                       Call("SDL_CreateWindow", 1)>> \o r.calls
         IN  IF fail = "IMG_Init"
             THEN [calls |-> made, gWindow |-> 1, gRenderer |-> r.render,
                   ret |-> FALSE]
             ELSE [calls |-> made \o <<Sub("IMG_Init")>>,
                   gWindow |-> 1, gRenderer |-> r.render, ret |-> TRUE]

Bool(b) == IF b THEN "true" ELSE "false"

\* quit = !init();
CallInit ==
    /\ prog \in {"lesson12", "lesson9"} /\ pc = "start"
    /\ \E fail \in InitFailures, renOk \in BOOLEAN :
         LET i == init(fail, renOk)
         IN  /\ calls' = calls \o i.calls
             /\ gWindow' = i.gWindow /\ gRenderer' = i.gRenderer
             /\ quit' = ~i.ret
             /\ rets' = [rets EXCEPT !.init = Bool(i.ret)]
    /\ pc' = "loadMedia"
    /\ UNCHANGED <<prog, args, texTable, lt, hist, draws, gTexture,
                   gStretchedSurface, gScreenSurface, rgb, nKeys, e>>

\* ---- main of the colour-modulation example
\* quit = !loadMedia(); loadMedia() loads gModulatedTexture from
\* res/full.png.  Then the test of while (!quit).
Lesson12LoadMedia ==
    /\ prog = "lesson12" /\ pc = "loadMedia"
    /\ \E created \in CreateTextureResults(gRenderer, "res/full.png") :
         LET r == LTexture_loadFromFile(lt["gModulatedTexture"],
                                        "res/full.png", created)
         IN  /\ lt' = [lt EXCEPT !["gModulatedTexture"] = r.obj]
             /\ calls' = calls \o r.calls
             /\ texTable' = IF created = NULL THEN texTable
                            ELSE Append(texTable,
                                        NewTexture(AssetDim["res/full.png"]))
             /\ quit' = ~r.ret
             /\ rets' = [rets EXCEPT !.loadMedia = Bool(r.ret)]
             /\ pc' = IF r.ret THEN "poll" ELSE "teardown"
    /\ UNCHANGED <<prog, args, hist, draws, gWindow, gRenderer, gTexture,
                   gStretchedSurface, gScreenSurface, rgb, nKeys, e>>

ColourStep == 32
Uint8(n) == n % 256

\* The switch on e.key.keysym.sym: r, g, b after a key-down.
keyDown(sym, c) ==
    CASE sym = "SDLK_q" -> [c EXCEPT !.r = Uint8(c.r + ColourStep)]
      [] sym = "SDLK_w" -> [c EXCEPT !.g = Uint8(c.g + ColourStep)]
      [] sym = "SDLK_e" -> [c EXCEPT !.b = Uint8(c.b + ColourStep)]
      [] sym = "SDLK_a" -> [c EXCEPT !.r = Uint8(c.r - ColourStep)]
      [] sym = "SDLK_s" -> [c EXCEPT !.g = Uint8(c.g - ColourStep)]
      [] sym = "SDLK_d" -> [c EXCEPT !.b = Uint8(c.b - ColourStep)]
      [] OTHER -> c

\* One pass of while (SDL_PollEvent(&e)) { ... } with an event delivered.
Lesson12Poll ==
    /\ prog = "lesson12" /\ pc = "poll"
    /\ \E ev \in EventSet :
         LET colour == ev.type = "SDL_KEYDOWN" /\ ev.sym \in ColourKeys
         IN  /\ colour => nKeys < MaxKeys
             /\ nKeys' = IF colour THEN nKeys + 1 ELSE nKeys
             /\ rgb' = IF ev.type = "SDL_KEYDOWN" THEN keyDown(ev.sym, rgb) ELSE rgb
             /\ quit' = handleEvent(ev, quit)
             /\ e' = ev
    /\ UNCHANGED <<prog, pc, calls, args, texTable, lt, hist, draws,
                   gWindow, gRenderer, gTexture, gStretchedSurface, gScreenSurface, rets>>

\* DrawLession12(gRenderer, r, g, b): gModulatedTexture.setColor(r, g, b);
\* gModulatedTexture.render(render, 0, 0).  Then the test of while (!quit).
Lesson12Draw ==
    /\ prog = "lesson12" /\ pc = "draw"
    /\ texTable' = LTexture_setColor(lt["gModulatedTexture"], rgb)
    /\ draws' = LTexture_render(lt["gModulatedTexture"], gRenderer, 0, 0, NoClip)
    /\ pc' = IF quit THEN "teardown" ELSE "poll"
    /\ UNCHANGED <<prog, calls, args, lt, hist, mainVars>>

\* close(); return 0;
Lesson12Close ==
    /\ prog = "lesson12" /\ pc = "teardown"
    /\ LET foo == LTexture_free(lt["gFooTexture"])
           background == LTexture_free(lt["gBackgroundTexture"])
       IN  /\ lt' = [lt EXCEPT !["gFooTexture"] = foo.obj,
                               !["gBackgroundTexture"] = background.obj]
           /\ calls' = calls \o foo.calls \o background.calls
                        \o cleanup(<<Ptr("Texture", gTexture),
                                     Ptr("Window", gWindow),
                                     Ptr("Renderer", gRenderer)>>)
                        \o <<Sub("IMG_Quit"), Sub("SDL_Quit")>>
    /\ gTexture' = NULL /\ gWindow' = NULL /\ gRenderer' = NULL
    /\ rets' = [rets EXCEPT !.main = "0"]
    /\ pc' = "returned"
    /\ UNCHANGED <<prog, args, texTable, hist, draws, gStretchedSurface, gScreenSurface,
                   quit, rgb, nKeys, e>>

\* After main returned: ~LTexture() of the global textures, in reverse
\* order of their construction; each frees what it holds.
Lesson12AtExit ==
    /\ prog = "lesson12" /\ pc = "returned"
    /\ calls' = calls \o LTexture_free(lt["gModulatedTexture"]).calls
                       \o LTexture_free(lt["gBackgroundTexture"]).calls
                       \o LTexture_free(lt["gFooTexture"]).calls
    /\ lt' = [n \in DOMAIN lt |-> LTexture_free(lt[n]).obj]
    /\ pc' = "exited"
    /\ UNCHANGED <<prog, args, texTable, hist, draws, mainVars>>

\* ---- main of the viewport example
\* lazyFoo_loadTexture(path, ren): IMG_Load, SDL_CreateTextureFromSurface,
\* SDL_FreeSurface; the calls made and the texture returned.
lazyFoo_loadTexture(loaded, created) ==
    IF ~loaded
    THEN [calls |-> <<>>, newTexture |-> NULL]
    ELSE IF created = NULL
    THEN [calls |-> <<Call("IMG_Load", 1), Call("SDL_FreeSurface", 1)>>,
          newTexture |-> NULL]
    ELSE [calls |-> <<Call("IMG_Load", 1),
                      Call("SDL_CreateTextureFromSurface", created),
                      Call("SDL_FreeSurface", 1)>>,
          newTexture |-> created]

\* quit = !loadMedia(); loadMedia() sets gTexture.  Then while (!quit).
Lesson9LoadMedia ==
    /\ prog = "lesson9" /\ pc = "loadMedia"
    /\ \E loaded \in BOOLEAN :
       \E created \in CreateTextureResults(gRenderer, "lession9_viewport.png") :
         LET r == lazyFoo_loadTexture(loaded, created)
         IN  /\ gTexture' = r.newTexture
             /\ calls' = calls \o r.calls
             /\ texTable' = IF r.newTexture = NULL THEN texTable
                            ELSE Append(texTable,
                                        NewTexture(AssetDim["lession9_viewport.png"]))
             /\ quit' = (r.newTexture = NULL)
             /\ rets' = [rets EXCEPT !.loadMedia = Bool(r.newTexture # NULL)]
             /\ pc' = IF r.newTexture # NULL THEN "poll" ELSE "teardown"
    /\ UNCHANGED <<prog, args, lt, hist, draws, gWindow, gRenderer,
                   gStretchedSurface, gScreenSurface, rgb, nKeys, e>>

\* DrawLession9(): SDL_RenderCopy(gRenderer, gTexture, NULL, NULL) in each
\* of three viewports.  Then the test of while (!quit).
Lesson9Draw ==
    /\ prog = "lesson9" /\ pc = "draw"
    /\ draws' = [i \in 1..3 |-> SDL_RenderCopy(gRenderer, gTexture, NoClip, NoClip)]
    /\ pc' = IF quit THEN "teardown" ELSE "poll"
    /\ UNCHANGED <<prog, calls, args, texTable, lt, hist, mainVars>>

\* close(); return 0;
Lesson9Close ==
    /\ prog = "lesson9" /\ pc = "teardown"
    /\ calls' = calls
                 \o cleanup(<<Ptr("Texture", gTexture), Ptr("Window", gWindow),
                              Ptr("Renderer", gRenderer)>>)
                 \o <<Sub("IMG_Quit"), Sub("SDL_Quit")>>
    /\ gTexture' = NULL /\ gWindow' = NULL /\ gRenderer' = NULL
    /\ rets' = [rets EXCEPT !.main = "0"]
    /\ pc' = "returned"
    /\ UNCHANGED <<prog, args, texTable, lt, hist, draws, gStretchedSurface, gScreenSurface,
                   quit, rgb, nKeys, e>>

\* ---- main of the stretched-bitmap example
StretchFailures ==
    {"SDL_Init", "TTF_Init", "SDL_CreateWindow", "SDL_LoadBMP",
     "SDL_ConvertSurface", "none"}

\* The surface SDL_GetWindowSurface(win) returns when it succeeds; the
\* window owns it, so it is neither acquired nor released by the program.
WindowSurface == 3

\* loadSurface(path): SDL_LoadBMP, SDL_ConvertSurface to the format of
\* gScreenSurface, SDL_FreeSurface of the loaded surface; the calls made
\* and the surface returned.  gScreenSurface->format is read through a
\* null pointer when the window has no surface: the read faults and the
\* process ends there.
loadSurface(fail, screen) ==
    IF fail = "SDL_LoadBMP"
    THEN [calls |-> <<>>, optimizedSurface |-> NULL, fault |-> FALSE]
    ELSE IF screen = NULL
    THEN [calls |-> <<Call("SDL_LoadBMP", 1)>>, optimizedSurface |-> NULL,
          fault |-> TRUE]
    ELSE IF fail = "SDL_ConvertSurface"
    THEN [calls |-> <<Call("SDL_LoadBMP", 1), Call("SDL_FreeSurface", 1)>>,
          optimizedSurface |-> NULL, fault |-> FALSE]
    ELSE [calls |-> <<Call("SDL_LoadBMP", 1), Call("SDL_ConvertSurface", 2),
                      Call("SDL_FreeSurface", 1)>>,
          optimizedSurface |-> 2, fault |-> FALSE]

\* main from its first line to the loop, to an early return 1 or to the
\* fault in loadSurface; screenOk tells whether SDL_GetWindowSurface
\* succeeds.
StretchStartup(fail, screenOk) ==
    IF fail = "SDL_Init"
    THEN [calls |-> <<>>, win |-> NULL, screen |-> NULL, surface |-> NULL,
          ret |-> "1"]
    ELSE IF fail = "TTF_Init"
    THEN [calls |-> <<Sub("SDL_Init"), Sub("SDL_Quit")>>,
          win |-> NULL, screen |-> NULL, surface |-> NULL, ret |-> "1"]
    ELSE IF fail = "SDL_CreateWindow"
    THEN [calls |-> <<Sub("SDL_Init"), Sub("TTF_Init"), Sub("SDL_Quit")>>,
          win |-> NULL, screen |-> NULL, surface |-> NULL, ret |-> "1"]
    ELSE LET screen == IF screenOk THEN WindowSurface ELSE NULL
             media == loadSurface(fail, screen)
         IN  [calls |-> <<Sub("SDL_Init"), Sub("TTF_Init"),
                          Call("SDL_CreateWindow", 1)>> \o media.calls,
              win |-> 1, screen |-> screen,
              surface |-> media.optimizedSurface,
              ret |-> IF media.fault THEN "fault"
                      ELSE IF media.optimizedSurface = NULL THEN "1"
                      ELSE "none"]

StretchStart ==
    /\ prog = "stretch" /\ pc = "start"
    /\ \E fail \in StretchFailures, screenOk \in BOOLEAN :
         LET m == StretchStartup(fail, screenOk)
         IN  /\ calls' = calls \o m.calls
             /\ gWindow' = m.win /\ gScreenSurface' = m.screen
             /\ gStretchedSurface' = m.surface
             /\ rets' = [rets EXCEPT
                           !.main = IF m.ret = "fault" THEN "none" ELSE m.ret,
                           !.loadMedia = IF m.win = NULL \/ m.ret = "fault"
                                         THEN "none"
                                         ELSE Bool(m.surface # NULL)]
             /\ pc' = CASE m.ret = "none" -> "poll"
                        [] m.ret = "fault" -> "crashed"
                        [] OTHER -> "returned"
    /\ UNCHANGED <<prog, args, texTable, lt, hist, draws, gRenderer, gTexture,
                   quit, rgb, nKeys, e>>

\* SDL_BlitScaled(gStretchedSurface, NULL, gScreenSurface, &stretchRect);
\* SDL_UpdateWindowSurface(win): the draw goes to the window's surface and
\* the window shows it.  Then the test of while (!quit).
StretchDraw ==
    /\ prog = "stretch" /\ pc = "draw"
    /\ draws' = <<[ren |-> gWindow, tex |-> gStretchedSurface, src |-> NoClip,
                   dst |-> [x |-> 0, y |-> 0, w |-> SCREEN_WIDTH,
                            h |-> SCREEN_HEIGHT],
                   target |-> gScreenSurface]>>
    /\ pc' = IF quit THEN "teardown" ELSE "poll"
    /\ UNCHANGED <<prog, calls, args, texTable, lt, hist, mainVars>>

\* cleanup(win); close(); return 0; close() frees gStretchedSurface and
\* calls SDL_Quit.
StretchTeardown ==
    /\ prog = "stretch" /\ pc = "teardown"
    /\ calls' = calls \o cleanup(<<Ptr("Window", gWindow)>>)
                       \o <<Call("SDL_FreeSurface", gStretchedSurface),
                            Sub("SDL_Quit")>>
    /\ gStretchedSurface' = NULL /\ gWindow' = NULL
    /\ rets' = [rets EXCEPT !.main = "0"]
    /\ pc' = "returned"
    /\ UNCHANGED <<prog, args, texTable, lt, hist, draws, gRenderer, gTexture,
                   gScreenSurface, quit, rgb, nKeys, e>>

InitMain ==
    /\ prog \in Programs
    /\ pc = "start"
    /\ calls = <<>>
    /\ args = <<>>
    /\ texTable = <<>>
    /\ lt = [n \in {"gFooTexture", "gBackgroundTexture", "gModulatedTexture"}
               |-> Empty]
    /\ hist = NoHist
    /\ draws = <<>>
    /\ InitMainVars

NextMain ==
    \/ TextStart \/ TextDraw \/ TextTeardown
    \/ CallInit \/ Lesson12LoadMedia \/ Lesson12Poll \/ Lesson12Draw
    \/ Lesson12Close \/ Lesson12AtExit
    \/ Lesson9LoadMedia \/ Lesson9Draw \/ Lesson9Close
    \/ StretchStart \/ StretchDraw \/ StretchTeardown
    \/ PollSimple \/ PollEmpty

SpecMain == InitMain /\ [][NextMain]_vars

\* The steps main takes on its own.  SDL_PollEvent hands over events only
\* as long as its queue holds some, so the inner loop ends (PollEmpty); a
\* frame, a teardown and the return from main are straight-line code.
MainProgress ==
    \/ PollEmpty
    \/ TextDraw \/ Lesson12Draw \/ Lesson9Draw \/ StretchDraw
    \/ TextTeardown \/ Lesson12Close \/ Lesson9Close \/ StretchTeardown
    \/ Lesson12AtExit

FairSpecMain == SpecMain /\ WF_vars(MainProgress)

\* ------------------------------------------------- claims on the mains
\* The call that releases what an acquiring call returned.
ReleaseOf(op) ==
    CASE op = "SDL_Init" -> "SDL_Quit"
      [] op = "TTF_Init" -> "TTF_Quit"
      [] op = "IMG_Init" -> "IMG_Quit"
      [] op = "SDL_CreateWindow" -> "SDL_DestroyWindow"
      [] op = "SDL_CreateRenderer" -> "SDL_DestroyRenderer"
      [] op = "SDL_CreateTextureFromSurface" -> "SDL_DestroyTexture"
      [] op = "TTF_OpenFont" -> "TTF_CloseFont"
      [] op \in {"IMG_Load", "SDL_LoadBMP", "SDL_ConvertSurface",
                 "TTF_RenderText_Blended"} -> "SDL_FreeSurface"

AcquireOps ==
    {"SDL_Init", "TTF_Init", "IMG_Init", "SDL_CreateWindow",
     "SDL_CreateRenderer", "SDL_CreateTextureFromSurface", "TTF_OpenFont",
     "IMG_Load", "SDL_LoadBMP", "SDL_ConvertSurface", "TTF_RenderText_Blended"}

\* How often what calls[i] acquired has been released.
Releases(i) == Count(calls, Call(ReleaseOf(calls[i].op), calls[i].h))

\* C4: in every example, whenever main has returned (early or at the end),
\* every subsystem, window, renderer, texture, surface and font that was
\* acquired has been released exactly once.
C4_AllReleased ==
    pc = "returned" =>
        \A i \in DOMAIN calls : calls[i].op \in AcquireOps => Releases(i) = 1

\* C10: when close() of the colour-modulation example has returned, every
\* texture that was loaded is released, no LTexture holds a handle, and
\* each of SDL, TTF and IMG that init() started is shut down.
C10_CloseReleasesAll ==
    prog = "lesson12" /\ pc = "returned" =>
        /\ \A h \in DOMAIN texTable : Destroyed(h) = 1
        /\ \A n \in DOMAIN lt : lt[n].mTexture = NULL
        /\ \A i \in DOMAIN calls :
              calls[i].op \in {"SDL_Init", "TTF_Init", "IMG_Init"} =>
                  Releases(i) >= 1

\* Every call of operation a in the trace comes before every call of b.
Before(a, b) ==
    \A i, j \in DOMAIN calls : calls[i].op = a /\ calls[j].op = b => i < j

QuitOps == {"SDL_Quit", "TTF_Quit", "IMG_Quit"}

\* C11: in every example the teardown releases each texture before the
\* renderer, the renderer before the window, and none of the three after a
\* library subsystem has been shut down.
C11_DependencyOrder ==
    /\ Before("SDL_DestroyTexture", "SDL_DestroyRenderer")
    /\ Before("SDL_DestroyRenderer", "SDL_DestroyWindow")
    /\ \A d \in {"SDL_DestroyTexture", "SDL_DestroyRenderer", "SDL_DestroyWindow"} :
          \A q \in QuitOps : Before(d, q)

\* The handle each frame of the running example draws, and what it draws
\* through: the renderer, or the window in the example that blits.
DrawnHandle ==
    CASE prog = "lesson12" -> lt["gModulatedTexture"].mTexture
      [] prog = "stretch"  -> gStretchedSurface
      [] OTHER             -> gTexture

DrawnThrough == IF prog = "stretch" THEN gWindow ELSE gRenderer

ReleaseOps ==
    {"SDL_DestroyTexture", "SDL_DestroyRenderer", "SDL_DestroyWindow"}
    \cup QuitOps

\* C12: every draw call made inside the render loop received a non-null
\* texture or surface and a non-null renderer or window (and, where the
\* draw blits to the window's surface, a non-null window surface); while
\* the loop runs the asset load has not failed, the handle drawn is held
\* and live, and nothing has been destroyed or shut down yet.
C12_DrawsPresent ==
    /\ \A i \in DOMAIN draws :
          /\ draws[i].tex # NULL
          /\ draws[i].ren # NULL
          /\ prog = "stretch" => draws[i].target # NULL
    /\ pc \in {"poll", "draw"} =>
          /\ rets.loadMedia # "false"
          /\ DrawnHandle # NULL
          /\ DrawnThrough # NULL
          /\ prog # "stretch" =>
                DrawnHandle \in DOMAIN texTable /\ Destroyed(DrawnHandle) = 0
          /\ \A i \in DOMAIN calls : calls[i].op \notin ReleaseOps
          /\ prog = "stretch" =>
                Count(calls, Call("SDL_FreeSurface", DrawnHandle)) = 0

\* The colour-modulation example has drawn a frame of its loaded texture
\* although init() had returned false.
C12_Witness ==
    /\ prog = "lesson12" /\ pc = "poll"
    /\ rets.init = "false" /\ rets.loadMedia = "true"
    /\ Len(draws) = 1
    /\ draws[1].tex = lt["gModulatedTexture"].mTexture
    /\ draws[1].tex = 1 /\ draws[1].ren = 1

\* What a key-down of `sym` is to add to component c ("r", "g" or "b").
StepOf(sym, c) ==
    CASE c = "r" /\ sym = "SDLK_q" -> ColourStep
      [] c = "g" /\ sym = "SDLK_w" -> ColourStep
      [] c = "b" /\ sym = "SDLK_e" -> ColourStep
      [] c = "r" /\ sym = "SDLK_a" -> -ColourStep
      [] c = "g" /\ sym = "SDLK_s" -> -ColourStep
      [] c = "b" /\ sym = "SDLK_d" -> -ColourStep
      [] OTHER -> 0

\* C13: in the colour-modulation loop every polled event leaves each of r,
\* g, b at its old value plus 32 for a key-down of q, w, e respectively,
\* minus 32 for a key-down of a, s, d, and unchanged for anything else.
C13_ColourKeys ==
    [][prog = "lesson12" /\ pc = "poll" /\ pc' = "poll" =>
          LET sym == IF e'.type = "SDL_KEYDOWN" THEN e'.sym ELSE "none"
          IN  /\ rgb'.r = rgb.r + StepOf(sym, "r")
              /\ rgb'.g = rgb.g + StepOf(sym, "g")
              /\ rgb'.b = rgb.b + StepOf(sym, "b")]_vars

\* C15: when init() has returned true, the window and the renderer both
\* exist and SDL, TTF and IMG have each been initialized (so the failure of
\* any one of the five steps makes it return false).
C15_InitAllOrFalse ==
    pc = "loadMedia" /\ rets.init = "true" =>
        /\ gWindow # NULL
        /\ gRenderer # NULL
        /\ \A o \in {"SDL_Init", "TTF_Init", "IMG_Init", "SDL_CreateWindow",
                     "SDL_CreateRenderer"} :
              \E i \in DOMAIN calls : calls[i].op = o

\* C16: in the examples that start with init() and loadMedia(), once init()
\* has returned false the render loop never runs: the program is never at
\* the event poll or at the frame, no event is polled and no frame drawn.
C16_FailedInitNoLoop ==
    rets.init = "false" =>
        /\ pc \notin {"poll", "draw"}
        /\ e = NoEvent
        /\ draws = <<>>

\* The events that are to end the loop.
QuitEvent(ev) ==
    \/ ev.type = "SDL_QUIT"
    \/ ev.type = "SDL_KEYDOWN" /\ ev.sym = "SDLK_ESCAPE"
    \/ ev.type = "SDL_MOUSEBUTTONDOWN"

InLoop == pc \in {"poll", "draw"}

\* A step of the main loop: a polled event sets quit exactly when it is a
\* quit event and never resets it; no other step of the loop changes quit;
\* with quit set the remaining events are still polled, then one frame is
\* drawn, the loop is left for the teardown, and the teardown shuts SDL
\* down and returns.
LoopStep ==
    /\ pc = "poll" /\ pc' = "poll" => quit' = (quit \/ QuitEvent(e'))
    /\ InLoop /\ ~(pc = "poll" /\ pc' = "poll") => quit' = quit
    /\ InLoop /\ quit => quit'
    /\ pc = "poll" => pc' \in {"poll", "draw"}
    /\ pc = "draw" =>
          /\ pc' = IF quit THEN "teardown" ELSE "poll"
          /\ draws' # <<>>
    /\ pc = "teardown" =>
          /\ pc' = "returned"
          /\ calls'[Len(calls')] = Sub("SDL_Quit")

QuitDelivered == InLoop /\ quit /\ QuitEvent(e)

Terminated == pc \in {"returned", "exited"} /\ rets.main = "0"

\* C17: in every example's loop quit is set exactly by SDL_QUIT, a key-down
\* of Escape or a mouse-button-down, is never reset, and once it is set the
\* queue is drained, one more frame is drawn and the teardown runs; so a
\* delivered quit event leads to the program's termination.
C17_QuitTerminates ==
    /\ [][LoopStep]_vars
    /\ QuitDelivered ~> Terminated

\* The text example has returned 0 after Escape was polled and a further
\* event was drained behind it.
C17_Witness ==
    /\ prog = "text" /\ pc = "returned" /\ rets.main = "0"
    /\ quit /\ e = Ev("SDL_KEYUP", "SDLK_ESCAPE")
    /\ draws # <<>>

\* Every non-empty argument list of at most MaxArgs typed pointers.
ArgLists == UNION {[1..n -> Ptrs] : n \in 1..MaxArgs}

InitCleanup ==
    /\ prog = "cleanup"
    /\ pc = "call"
    /\ calls = <<>>
    /\ args \in ArgLists
    /\ texTable = <<>>
    /\ lt = [n \in {} |-> Empty]
    /\ hist = NoHist
    /\ draws = <<>>
    /\ InitMainVars

CallCleanup ==
    /\ prog = "cleanup"
    /\ pc = "call"
    /\ calls' = calls \o cleanup(args)
    /\ pc' = "done"
    /\ UNCHANGED <<prog, args, texTable, lt, hist, draws, mainVars>>

NextCleanup == CallCleanup

SpecCleanup == InitCleanup /\ [][NextCleanup]_vars

\* ------------------------------------------------------ claims on cleanup
\* The release operation that belongs to each kind of resource.
DestroyOp(k) ==
    CASE k = "Window"   -> "SDL_DestroyWindow"
      [] k = "Renderer" -> "SDL_DestroyRenderer"
      [] k = "Texture"  -> "SDL_DestroyTexture"
      [] k = "Surface"  -> "SDL_FreeSurface"

DestroyOf(p) == Call(DestroyOp(p.kind), p.h)

\* C1: for every argument list mixing window, renderer, texture and surface
\* pointers, some of them null, cleanup(...) invokes the destroy operation of
\* the pointer's kind once for every non-null argument and never for a null
\* one, and the call always runs to completion.
C1_NullTolerance ==
    /\ pc = "call" => ENABLED CallCleanup
    /\ pc = "done" =>
        /\ \A j \in DOMAIN calls : calls[j].h # NULL
        /\ \A p \in Ptrs :
              Count(calls, DestroyOf(p)) = IF p.h = NULL THEN 0 ELSE Count(args, p)
        /\ Len(calls) = Cardinality({i \in DOMAIN args : args[i].h # NULL})

\* The scenario of the specification: (Window, absent), (Renderer, h1),
\* (Texture, absent) releases only h1.
C1_Witness ==
    /\ pc = "done"
    /\ args = <<Ptr("Window", NULL), Ptr("Renderer", 1), Ptr("Texture", NULL)>>
    /\ calls = <<Call("SDL_DestroyRenderer", 1)>>

\* The argument list with its null entries removed, as release calls.
ReleasesInOrder(a) ==
    LET present == SelectSeq(a, LAMBDA p : p.h # NULL)
    IN  [i \in 1..Len(present) |-> DestroyOf(present[i])]

\* C2: the release calls of cleanup(a1, ..., an) are exactly the argument
\* list with the null entries removed, in argument order (left to right).
C2_LeftToRight ==
    pc = "done" => calls = ReleasesInOrder(args)

C2_Witness ==
    /\ pc = "done"
    /\ args = <<Ptr("Texture", 1), Ptr("Renderer", NULL), Ptr("Window", 2)>>
    /\ calls = <<Call("SDL_DestroyTexture", 1), Call("SDL_DestroyWindow", 2)>>

\* C3 as stated: cleanup never releases the same handle more than once in a
\* single call, even when the same non-null pointer is passed twice.
C3_NeverTwice ==
    pc = "done" =>
        \A i, j \in DOMAIN calls : calls[i] = calls[j] => i = j

\* C3 as amended: cleanup releases no handle more often than the handle
\* appears in the argument list, so a handle is released at most once
\* whenever it is passed at most once.
C3_NoMoreThanListed ==
    pc = "done" =>
        \A p \in Ptrs : Count(calls, DestroyOf(p)) <= Count(args, p)

\* A pointer passed twice is released twice.
C3_Witness ==
    /\ pc = "done"
    /\ args = <<Ptr("Texture", 1), Ptr("Texture", 1)>>
    /\ calls = <<Call("SDL_DestroyTexture", 1), Call("SDL_DestroyTexture", 1)>>

====
